---- MODULE Spec2Model ----
(***************************************************************************)
(* The four IP generators of rapidsilicon/ip (axi_dpram, axi_spi_slave,    *)
(* axis_interconnect, fifo) as one state machine: a run of one generator's *)
(* main(), from argument parsing through the parameter check, the JSON     *)
(* import and template export, the construction of the wrapper module on a *)
(* fresh platform, and the build calls.                                    *)
(*                                                                         *)
(* Outside the model: the sub-cores (AXIDPRAM, AXISPISLAVE,                *)
(* AXISTREAMINTERCONNECT, FIFO) and the builder classes of common.py,      *)
(* whose calls are recorded but whose bodies are not in the sources.  The  *)
(* interconnect and FIFO generators import and export JSON through         *)
(* IP_Builder only, so their runs are modelled without --json and          *)
(* --json-template.                                                        *)
(***************************************************************************)
EXTENDS Integers, Sequences, FiniteSets, TLC

VARIABLES
    gen,          \* the generator whose main() runs
    cli,          \* the command line: option name -> supplied value
    pc,           \* position in main() / the wrapper's __init__
    args,         \* the argparse namespace
    json_doc,     \* the document json.load returned (Empty before the import)
    log,          \* the options named by the error reports, in order
    stdout,       \* the printed JSON template (Empty when none was printed)
    calls,        \* the rs_builder methods invoked, in order
    ios,          \* platform.add_extension: the declared resources <<name, width>>
    requested,    \* platform.request: the names requested, in order
    domains,      \* self.clock_domains of the wrapper
    comb,         \* the clock/reset assignments added to self.comb, in order
    submodule,    \* the sub-core instance and the arguments it was given
    module,       \* the assembled wrapper ("None" until __init__ returns)
    s_count,      \* AXISTREAMINTERCONNECTWrapper.__init__: local s_count
    m_count,      \* AXISTREAMINTERCONNECTWrapper.__init__: local m_count
    select_width, \* AXISTREAMINTERCONNECTWrapper.__init__: local select_width
    s_axiss,      \* the slave interfaces appended, by port name
    m_axiss,      \* the master interfaces appended, by port name
    rng,          \* the range object of the running for loop: [i, stop]
    select        \* the control signals bound to interconnect.select, in order

vars == <<gen, cli, pc, args, json_doc, log, stdout, calls, ios, requested,
          domains, comb, submodule, module, s_count, m_count, select_width,
          s_axiss, m_axiss, rng, select>>

wrapper_vars == <<ios, requested, domains, comb, submodule, module>>
loop_vars    == <<s_count, m_count, select_width, s_axiss, m_axiss, rng, select>>

-----------------------------------------------------------------------------
(* Bounds of the explored inputs.                                          *)

\* core options given on one command line
MaxCliOverrides == 2
\* keys of one imported JSON document
MaxJsonKeys == 1

-----------------------------------------------------------------------------
(* Helpers.                                                                *)

Empty == [k \in {} |-> 0]

\* dict.update / Namespace overlay: over's keys win
Overlay(base, over) ==
    [k \in DOMAIN base \cup DOMAIN over |->
        IF k \in DOMAIN over THEN over[k] ELSE base[k]]

Digit == <<"0", "1", "2", "3", "4", "5", "6", "7", "8", "9">>

\* "{}".format(n) for an int n >= 0: the decimal numeral
RECURSIVE Str(_)
Str(n) == IF n < 10 THEN Digit[n + 1] ELSE Str(n \div 10) \o Digit[(n % 10) + 1]

\* math.ceil(math.log2(n)) for an int n >= 1
RECURSIVE CeilLog2(_)
CeilLog2(n) == IF n <= 1 THEN 0 ELSE 1 + CeilLog2((n + 1) \div 2)

-----------------------------------------------------------------------------
(* The parsers: options, types, defaults, choices.                         *)

Generators == {"axi_dpram", "axi_spi_slave", "axis_interconnect", "fifo"}

\* the store_true / path options common to the four parsers
Flags == {"build", "json", "json_template"}

\* generators whose JSON import and export are written out in main()
JsonGenerators == {"axi_dpram", "axi_spi_slave"}

Fields(g) ==
    CASE g = "axi_dpram" ->
            {"data_width", "addr_width", "id_width", "a_pip_out", "b_pip_out",
             "a_interleave", "b_interleave"}
      [] g = "axi_spi_slave" ->
            {"addr_width", "data_width", "user_width", "id_width", "dummy_cycles"}
      [] g = "axis_interconnect" ->
            {"data_width", "last_en", "id_en", "dest_en", "user_en", "s_count",
             "m_count", "id_width", "dest_width", "user_width"}
      [] g = "fifo" ->
            {"data_width", "depth", "full_value", "empty_value", "synchronous",
             "first_word_fall_through", "full_threshold", "empty_threshold", "BRAM"}

\* the options declared with type=bool
BoolFields(g) ==
    CASE g = "axis_interconnect" -> {"last_en", "id_en", "dest_en", "user_en"}
      [] g = "fifo" -> {"synchronous", "first_word_fall_through", "full_threshold",
                        "empty_threshold", "BRAM"}
      [] OTHER -> {}

Default(g, f) ==
    CASE f \in Flags -> FALSE
      [] g = "axi_dpram" ->
            (CASE f = "data_width" -> 32 [] f = "addr_width" -> 16
               [] f = "id_width" -> 32 [] OTHER -> 0)
      [] g = "axi_spi_slave" ->
            (CASE f = "addr_width" -> 32 [] f = "data_width" -> 64
               [] f = "user_width" -> 6 [] f = "id_width" -> 3
               [] f = "dummy_cycles" -> 32)
      [] g = "axis_interconnect" ->
            (CASE f = "data_width" -> 8 [] f = "s_count" -> 4 [] f = "m_count" -> 4
               [] f = "id_width" -> 8 [] f = "dest_width" -> 8
               [] f = "user_width" -> 1 [] OTHER -> TRUE)
      [] g = "fifo" ->
            (CASE f = "data_width" -> 36 [] f = "depth" -> 1024
               [] f = "full_value" -> 1010 [] f = "empty_value" -> 20
               [] f = "synchronous" -> TRUE [] OTHER -> FALSE)

\* the options declared with choices=...
HasChoices(g, f) == g # "axi_dpram" /\ f \in Fields(g) \ BoolFields(g)

Choices(g, f) ==
    CASE g = "axi_spi_slave" ->
            (CASE f = "addr_width" -> {8, 16, 32, 64} [] f = "data_width" -> {8, 16, 32}
               [] f = "user_width" -> 1..8 [] f = "id_width" -> 1..16
               [] f = "dummy_cycles" -> {16, 32})
      [] g = "axis_interconnect" ->
            (CASE f = "data_width" -> {8, 16, 32, 64, 128, 256, 512, 1024}
               [] f = "s_count" -> 2..16 [] f = "m_count" -> 1..16
               [] f = "id_width" -> 1..8 [] f = "dest_width" -> 1..8
               [] f = "user_width" -> 1..1024)
      [] g = "fifo" ->
            (CASE f = "data_width" -> 1..128 [] f = "depth" -> 2..32768
               [] f = "full_value" -> 1..4094 [] f = "empty_value" -> 0..4094)

\* as if the string were read as a truth value by its spelling
PyBool_by_spelling(s) == s \in {"True", "true", "1"}

\* type=bool applied to the supplied string: bool(s)
PyBool(s) == s # ""

\* argparse's conversion of one supplied value (int options arrive as ints)
ConvertArg(g, f, v) == IF f \in BoolFields(g) THEN PyBool(v) ELSE v

\* argparse's check of one converted value against the option's choices
ChoiceOk(g, f, v) == HasChoices(g, f) => v \in Choices(g, f)

Defaults(g) == [f \in Fields(g) \cup Flags |-> Default(g, f)]

-----------------------------------------------------------------------------
(* The explored inputs.                                                    *)

\* values tried for a core option on the command line, beside its default
CliValues(g, f) ==
    CASE g = "axi_dpram" ->
            (CASE f = "data_width" -> {8, 24} [] f = "addr_width" -> {7, 8, 16, 17}
               [] f = "id_width" -> {0, 1, 32, 33} [] OTHER -> {-1, 1, 2})
      [] g = "axi_spi_slave" ->
            (CASE f = "addr_width" -> {8, 7} [] f = "data_width" -> {8, 64}
               [] f = "user_width" -> {1, 9} [] f = "id_width" -> {16, 17}
               [] f = "dummy_cycles" -> {16, 8})
      [] g = "axis_interconnect" ->
            (CASE f = "s_count" -> 1..17 [] f = "m_count" -> 0..17
               [] f = "data_width" -> {16, 7}
               [] f \in {"last_en", "id_en"} -> {"", "False"}
               [] f \in {"dest_en", "user_en"} -> {"", "0"}
               [] OTHER -> {})
      [] g = "fifo" ->
            (CASE f = "data_width" -> {8, 0}
               [] f \in {"synchronous", "full_threshold", "empty_threshold"} ->
                    {"", "False", "0", "True"}
               [] f \in {"first_word_fall_through", "BRAM"} -> {"", "False"}
               [] OTHER -> {})

\* values tried for a key of an imported document
JsonValues(g, k) ==
    CASE k = "bogus" -> {1}
      [] g = "axi_dpram" ->
            (CASE k = "data_width" -> {64, 24} [] k = "addr_width" -> {8, 17}
               [] k = "id_width" -> {1, 33} [] OTHER -> {1, 2})
      [] g = "axi_spi_slave" ->
            (CASE k = "addr_width" -> {8, 7} [] k = "data_width" -> {8, 24}
               [] k = "user_width" -> {1, 9} [] k = "id_width" -> {16, 17}
               [] k = "dummy_cycles" -> {16, 8})

Values(src, g, k) == IF src = "cli" THEN CliValues(g, k) ELSE JsonValues(g, k)

\* all maps from the keys S to the values tried for each
RECURSIVE Maps(_, _, _)
Maps(src, g, S) ==
    IF S = {} THEN {Empty}
    ELSE LET k == CHOOSE x \in S : TRUE
         IN  {(k :> v) @@ m : v \in Values(src, g, k), m \in Maps(src, g, S \ {k})}

FlagSets(g) == IF g \in JsonGenerators THEN SUBSET Flags ELSE SUBSET {"build"}

CommandLines(g) ==
    UNION {{c @@ [f \in F |-> TRUE] : c \in Maps("cli", g, S)} :
           <<S, F>> \in {T \in SUBSET Fields(g) : Cardinality(T) <= MaxCliOverrides}
                        \X FlagSets(g)}

JsonDocuments(g) ==
    UNION {Maps("json", g, S) :
           S \in {T \in SUBSET (Fields(g) \cup {"bogus"}) : Cardinality(T) <= MaxJsonKeys}}

-----------------------------------------------------------------------------
(* State after construction: nothing parsed, a fresh platform.             *)

NoCore == [name |-> "None"]

Init ==
    /\ gen \in Generators
    /\ cli \in CommandLines(gen)
    /\ pc = "parse_args"
    /\ args = Empty
    /\ json_doc = Empty
    /\ log = <<>>
    /\ stdout = Empty
    /\ calls = <<>>
    /\ ios = {}
    /\ requested = <<>>
    /\ domains = {}
    /\ comb = <<>>
    /\ submodule = NoCore
    /\ module = "None"
    /\ s_count = 0
    /\ m_count = 0
    /\ select_width = 0
    /\ s_axiss = <<>>
    /\ m_axiss = <<>>
    /\ rng = [i |-> 0, stop |-> 0]
    /\ select = <<>>

-----------------------------------------------------------------------------
(* main(): parser.parse_args().                                            *)

\* the supplied options argparse refuses (a value outside the choices)
Refused(g, c) ==
    {f \in DOMAIN c \ Flags : ~ChoiceOk(g, f, ConvertArg(g, f, c[f]))}

\* the namespace parse_args returns for an accepted command line
ParsedArgs(g, c) ==
    Overlay(Defaults(g),
            [f \in DOMAIN c |-> IF f \in Flags THEN c[f] ELSE ConvertArg(g, f, c[f])])

AfterParse(g) == IF g = "axi_dpram" THEN "param_check" ELSE "import_json"

parse_args ==
    /\ pc = "parse_args"
    /\ IF Refused(gen, cli) # {}
       THEN \E f \in Refused(gen, cli) :
                /\ log' = Append(log, f)
                /\ pc' = "exit"
                /\ args' = args
       ELSE /\ args' = ParsedArgs(gen, cli)
            /\ pc' = AfterParse(gen)
            /\ log' = log
    /\ UNCHANGED <<gen, cli, json_doc, stdout, calls>>
    /\ UNCHANGED wrapper_vars
    /\ UNCHANGED loop_vars

-----------------------------------------------------------------------------
(* axi_dpram main(): the parameter check.                                  *)

\* as if the last check tested args.a_interleave again
CheckOrder_copy_paste == <<"data_width", "addr_width", "id_width", "a_pip_out",
                           "b_pip_out", "a_interleave", "a_interleave">>

\* the order of the seven checks
CheckOrder == <<"data_width", "addr_width", "id_width", "a_pip_out", "b_pip_out",
                "a_interleave", "b_interleave">>

\* the options as their help texts document them: "8,16,32,64,128,256",
\* "from 8 to 16", "from 1 to 32", "0 or 1"
DeclaredDomain(f) ==
    CASE f = "data_width" -> {8, 16, 32, 64, 128, 256}
      [] f = "addr_width" -> 8..16
      [] f = "id_width" -> 1..32
      [] OTHER -> {0, 1}

\* the order in which the options are declared
OptionOrder == <<"data_width", "addr_width", "id_width", "a_pip_out", "b_pip_out",
                 "a_interleave", "b_interleave">>

\* as if addr_range were range(8, 16)
ParamRange_addr_short(f) ==
    CASE f = "data_width" -> {8, 16, 32, 64, 128, 256}
      [] f = "addr_width" -> 8..15
      [] f = "id_width" -> 1..32
      [] OTHER -> 0..1

\* data_width_param, addr_range, id_range, a_pip_range, ...
ParamRange(f) ==
    CASE f = "data_width" -> {8, 16, 32, 64, 128, 256}
      [] f = "addr_width" -> 8..16
      [] f = "id_width" -> 1..32
      [] OTHER -> 0..1

\* the index in CheckOrder of the first check that fails from k on (0: none)
RECURSIVE FirstFailure(_, _)
FirstFailure(a, k) ==
    IF k > Len(CheckOrder) THEN 0
    ELSE IF a[CheckOrder[k]] \notin ParamRange(CheckOrder[k]) THEN k
    ELSE FirstFailure(a, k + 1)

param_check ==
    /\ pc = "param_check"
    /\ LET k == FirstFailure(args, 1) IN
       IF k # 0
       THEN /\ log' = Append(log, CheckOrder[k])      \* logger.error; exit()
            /\ pc' = "exit"
       ELSE /\ log' = log
            /\ pc' = "import_json"
    /\ UNCHANGED <<gen, cli, args, json_doc, stdout, calls>>
    /\ UNCHANGED wrapper_vars
    /\ UNCHANGED loop_vars

-----------------------------------------------------------------------------
(* main(): the JSON import and the template export.                        *)

\* t_args.__dict__.update(doc); parser.parse_args(namespace=t_args): the
\* document's keys, defaults for the options it lacks, then the command line
\* the value of one decimal digit character
DigitValue(c) == CHOOSE d \in 0..9 : Digit[d + 1] = c

\* as if the numeral were read from its last digit to its first
RECURSIVE ParseNat_little_endian(_)
ParseNat_little_endian(t) ==
    IF t = <<>> THEN 0 ELSE DigitValue(Head(t)) + 10 * ParseNat_little_endian(Tail(t))

\* the number a decimal numeral (a sequence of digit characters) denotes
RECURSIVE ParseNat(_)
ParseNat(t) ==
    IF t = <<>> THEN 0
    ELSE 10 * ParseNat(SubSeq(t, 1, Len(t) - 1)) + DigitValue(t[Len(t)])

\* the characters json.dumps writes for an int
RECURSIVE DumpInt(_)
DumpInt(n) ==
    IF n < 0 THEN <<"-">> \o DumpInt(-n)
    ELSE IF n < 10 THEN <<Digit[n + 1]>>
    ELSE DumpInt(n \div 10) \o <<Digit[(n % 10) + 1]>>

\* json.dumps of one attribute: the store_true flags are booleans, args.json is
\* None or a path (a string), every core option of these generators is an int
DumpValue(k, v) ==
    CASE k = "json" -> IF v THEN <<"\"", "p", "\"">> ELSE <<"n", "u", "l", "l">>
      [] k \in Flags -> IF v THEN <<"t", "r", "u", "e">> ELSE <<"f", "a", "l", "s", "e">>
      [] OTHER -> DumpInt(v)

\* json.load of one value, decided by its first character; null and a path are
\* kept by their truth value, which is all `if args.json` reads
LoadValue(t) ==
    CASE t[1] = "t" -> TRUE
      [] t[1] = "f" -> FALSE
      [] t[1] = "n" -> FALSE
      [] t[1] = "\"" -> TRUE
      [] t[1] = "-" -> 0 - ParseNat(Tail(t))
      [] OTHER -> ParseNat(t)

\* json.dumps(vars(args)): one entry for every attribute of the namespace
json_dumps(a) == [k \in DOMAIN a |-> DumpValue(k, a[k])]

\* json.load(f)
json_load(text) == [k \in DOMAIN text |-> LoadValue(text[k])]

\* the document a run with --json-template alone prints, as a later run reads it
Template(g) == json_load(json_dumps(ParsedArgs(g, "json_template" :> TRUE)))

ImportArgs(g, doc, c) ==
    Overlay(Overlay(Defaults(g), doc),
            [f \in DOMAIN c |-> IF f \in Flags THEN c[f] ELSE ConvertArg(g, f, c[f])])

AfterExport(g) == IF g = "axi_dpram" THEN "prepare" ELSE "wrapper"

import_json ==
    /\ pc = "import_json"
    /\ IF args["json"]
       THEN \E doc \in JsonDocuments(gen) \cup {Template(gen)} :
                /\ json_doc' = doc
                /\ args' = ImportArgs(gen, doc, cli)
       ELSE UNCHANGED <<json_doc, args>>
    /\ pc' = "export_json"
    /\ UNCHANGED <<gen, cli, log, stdout, calls>>
    /\ UNCHANGED wrapper_vars
    /\ UNCHANGED loop_vars

\* print(json.dumps(vars(args))): every attribute of the namespace
export_json ==
    /\ pc = "export_json"
    /\ stdout' = IF args["json_template"] THEN json_dumps(args) ELSE stdout
    /\ pc' = AfterExport(gen)
    /\ UNCHANGED <<gen, cli, args, json_doc, log, calls>>
    /\ UNCHANGED wrapper_vars
    /\ UNCHANGED loop_vars

-----------------------------------------------------------------------------
(* The build calls.                                                        *)

\* axi_dpram: the project directory is built before the wrapper is created
prepare ==
    /\ pc = "prepare"
    /\ gen = "axi_dpram"
    /\ calls' = IF args["build"]
                THEN calls \o <<"prepare", "copy_files", "generate_tcl">>
                ELSE calls
    /\ pc' = "wrapper"
    /\ UNCHANGED <<gen, cli, args, json_doc, log, stdout>>
    /\ UNCHANGED wrapper_vars
    /\ UNCHANGED loop_vars

\* the calls of the closing "if args.build:" block
BuildCalls(g) ==
    CASE g = "axi_dpram" -> <<"build">>
      [] g = "axi_spi_slave" ->
            <<"prepare", "copy_files", "generate_tcl", "generate_verilog">>
      [] OTHER -> <<"prepare", "copy_files", "generate_tcl", "generate_wrapper">>

build ==
    /\ pc = "build"
    /\ calls' = IF args["build"] THEN calls \o BuildCalls(gen) ELSE calls
    /\ pc' = "done"
    /\ UNCHANGED <<gen, cli, args, json_doc, log, stdout>>
    /\ UNCHANGED wrapper_vars
    /\ UNCHANGED loop_vars

-----------------------------------------------------------------------------
(* The wrappers.  A clock/reset assignment self.cd_X.S.eq(request(N)) is   *)
(* the record [cd |-> X, sig |-> S, src |-> N].                            *)

Drive(cd, sig, src) == [cd |-> cd, sig |-> sig, src |-> src]

\* the names of a list of declared resources
Names(io) == {r[1] : r \in io}

DPRAM_get_clkin_ios == {<<"a_clk", 1>>, <<"a_rst", 1>>, <<"b_clk", 1>>, <<"b_rst", 1>>}

DPRAM_comb ==
    << Drive("sys", "clk", "a_clk"), Drive("sys", "rst", "a_rst"),
       Drive("sys", "clk", "b_clk"), Drive("sys", "rst", "b_rst") >>

AXIDPRAMWrapper ==
    /\ pc = "wrapper"
    /\ gen = "axi_dpram"
    /\ ios' = DPRAM_get_clkin_ios
                \cup {<<"s_axi_a", args["data_width"]>>, <<"s_axi_b", args["data_width"]>>}
    /\ domains' = {"sys"}
    /\ comb' = DPRAM_comb
    /\ requested' = <<"a_clk", "a_rst", "b_clk", "b_rst", "s_axi_a", "s_axi_b">>
    /\ submodule' = [name              |-> "AXIDPRAM",
                     a_pipeline_output |-> args["a_pip_out"],
                     b_pipeline_output |-> args["b_pip_out"],
                     a_interleave      |-> args["a_interleave"],
                     b_interleave      |-> args["b_interleave"],
                     \* (2**addr_width)*(data_width/8), in eighths
                     size8             |-> (2 ^ args["addr_width"]) * args["data_width"]]
    /\ module' = "AXIDPRAMWrapper"
    /\ pc' = "build"
    /\ UNCHANGED <<gen, cli, args, json_doc, log, stdout, calls>>
    /\ UNCHANGED loop_vars

SPI_get_clkin_ios == {<<"axi_aclk", 1>>, <<"axi_aresetn", 1>>}

get_spi_ios == {<<"test_mode", 1>>, <<"spi", 12>>}

SPI_comb == << Drive("sys", "clk", "axi_aclk"), Drive("sys", "rst", "axi_aresetn") >>

AXISPISLAVEWrapper ==
    /\ pc = "wrapper"
    /\ gen = "axi_spi_slave"
    /\ ios' = SPI_get_clkin_ios \cup {<<"axi_master", args["data_width"]>>} \cup get_spi_ios
    /\ domains' = {"sys"}
    /\ comb' = SPI_comb
    /\ requested' = <<"axi_aclk", "axi_aresetn", "axi_master", "spi", "test_mode">>
    /\ submodule' = [name |-> "AXISPISLAVE", dummy_cycles |-> args["dummy_cycles"]]
    /\ module' = "AXISPISLAVEWrapper"
    /\ pc' = "build"
    /\ UNCHANGED <<gen, cli, args, json_doc, log, stdout, calls>>
    /\ UNCHANGED loop_vars

FIFO_get_clkin_ios(data_width) ==
    { <<"clk", 1>>, <<"rst", 1>>, <<"wrt_clock", 1>>, <<"rd_clock", 1>>,
      <<"din", data_width>>, <<"dout", data_width>>, <<"wr_en", 1>>, <<"rd_en", 1>>,
      <<"full", 1>>, <<"empty", 1>>, <<"underflow", 1>>, <<"overflow", 1>>,
      <<"prog_full", 1>>, <<"prog_empty", 1>> }

\* the platform.request calls of FIFOWrapper.__init__, in order
FIFO_requests(synchronous, full_threshold, empty_threshold) ==
    <<"din", "dout">>
      \o (IF full_threshold THEN <<"prog_full">> ELSE <<>>)
      \o (IF empty_threshold THEN <<"prog_empty">> ELSE <<>>)
      \o (IF synchronous THEN <<"clk">> ELSE <<"wrt_clock", "rd_clock">>)
      \o <<"rst", "wr_en", "rd_en", "full", "empty", "underflow", "overflow">>

\* the clock/reset assignments of FIFOWrapper.__init__, in order
FIFO_comb(synchronous) ==
    (IF synchronous
     THEN << Drive("sys", "clk", "clk") >>
     ELSE << Drive("wrt", "clk", "wrt_clock"), Drive("rd", "clk", "rd_clock") >>)
      \o << Drive("sys", "rst", "rst") >>

FIFOWrapper ==
    /\ pc = "wrapper"
    /\ gen = "fifo"
    /\ ios' = FIFO_get_clkin_ios(args["data_width"])
    /\ domains' = {"sys", "wrt", "rd"}
    /\ comb' = FIFO_comb(args["synchronous"])
    /\ requested' = FIFO_requests(args["synchronous"], args["full_threshold"],
                                  args["empty_threshold"])
    /\ submodule' = [name            |-> "FIFO",
                     data_width      |-> args["data_width"],
                     synchronous     |-> args["synchronous"],
                     full_threshold  |-> args["full_threshold"],
                     empty_threshold |-> args["empty_threshold"],
                     depth           |-> args["depth"]]
    /\ module' = "FIFOWrapper"
    /\ pc' = "build"
    /\ UNCHANGED <<gen, cli, args, json_doc, log, stdout, calls>>
    /\ UNCHANGED loop_vars

-----------------------------------------------------------------------------
(* AXISTREAMINTERCONNECTWrapper.__init__, one step per loop iteration.     *)

AXIS_get_clkin_ios == {<<"clk", 1>>, <<"rst", 1>>}

AXIS_comb == << Drive("sys", "clk", "clk"), Drive("sys", "rst", "rst") >>

\* int((data_width+7)/8)
KeepWidth(data_width) == (data_width + 7) \div 8

\* as if the width were computed from s_count as the slave loop leaves it
SelectWidth_after_loop(n) == CeilLog2(n - 1)

\* math.ceil(math.log2(s_count)), evaluated before the loops
SelectWidth(n) == CeilLog2(n)

\* as if the branch were "> 10"
PortName_gt10(prefix, i) ==
    IF i > 10 THEN prefix \o Str(i) \o "_axis" ELSE prefix \o "0" \o Str(i) \o "_axis"

\* the port name of the interface the loop variable i stands for
PortName(prefix, i) ==
    IF i > 9 THEN prefix \o Str(i) \o "_axis" ELSE prefix \o "0" \o Str(i) \o "_axis"

\* "m{}_select".format(m_count)
SelectName(i) == "m" \o Str(i) \o "_select"

get_control_ios(width, i) == {<<SelectName(i), width>>}

\* as if the control loop were written range(m_count)
ControlRangeStop_no_plus_one(m) == m

\* the stop of the control loop's range, from m_count as the master loop left it
ControlRangeStop(m) == m + 1

\* Clocking and the width calculation; range(s_count) is evaluated here
\* as if the loop variable were a name of its own, leaving the parameter alone
LoopTarget_fresh_name(param, i) == param

\* `for s_count in range(s_count)`: each iteration assigns the index to the
\* loop's target, which is the parameter; what the parameter holds afterwards
LoopTarget(param, i) == i

AXIS_clocking ==
    /\ pc = "wrapper"
    /\ gen = "axis_interconnect"
    /\ ios' = AXIS_get_clkin_ios
    /\ domains' = {"sys"}
    /\ comb' = AXIS_comb
    /\ requested' = <<"clk", "rst">>
    /\ s_count' = args["s_count"]
    /\ m_count' = args["m_count"]
    /\ select_width' = SelectWidth(args["s_count"])
    /\ rng' = [i |-> 0, stop |-> args["s_count"]]
    /\ pc' = "s_loop"
    /\ UNCHANGED <<gen, cli, args, json_doc, log, stdout, calls, submodule, module,
                   s_axiss, m_axiss, select>>

\* for s_count in range(s_count): the loop variable is the parameter itself
AXIS_slave_loop ==
    /\ pc = "s_loop"
    /\ IF rng.i < rng.stop
       THEN LET name == PortName("s", rng.i) IN
            /\ s_count' = LoopTarget(s_count, rng.i)
            /\ ios' = ios \cup {<<name, args["data_width"]>>}
            /\ requested' = Append(requested, name)
            /\ s_axiss' = Append(s_axiss, [name       |-> name,
                                           keep_width |-> KeepWidth(args["data_width"])])
            /\ rng' = [rng EXCEPT !.i = rng.i + 1]
            /\ pc' = pc
       ELSE \* range(m_count) is evaluated as the master loop starts
            /\ rng' = [i |-> 0, stop |-> m_count]
            /\ pc' = "m_loop"
            /\ UNCHANGED <<s_count, ios, requested, s_axiss>>
    /\ UNCHANGED <<gen, cli, args, json_doc, log, stdout, calls, domains, comb,
                   submodule, module, m_count, select_width, m_axiss, select>>

\* for m_count in range(m_count); when it ends the sub-core is instantiated
\* and range(m_count+1) of the control loop is evaluated
AXIS_master_loop ==
    /\ pc = "m_loop"
    /\ IF rng.i < rng.stop
       THEN LET name == PortName("m", rng.i) IN
            /\ m_count' = LoopTarget(m_count, rng.i)
            /\ ios' = ios \cup {<<name, args["data_width"]>>}
            /\ requested' = Append(requested, name)
            /\ m_axiss' = Append(m_axiss, [name       |-> name,
                                           keep_width |-> KeepWidth(args["data_width"])])
            /\ rng' = [rng EXCEPT !.i = rng.i + 1]
            /\ pc' = pc
            /\ UNCHANGED submodule
       ELSE /\ submodule' = [name         |-> "AXISTREAMINTERCONNECT",
                             m_axis       |-> Len(m_axiss),
                             s_axis       |-> Len(s_axiss),
                             s_count      |-> s_count,
                             m_count      |-> m_count,
                             last_en      |-> args["last_en"],
                             id_en        |-> args["id_en"],
                             dest_en      |-> args["dest_en"],
                             user_en      |-> args["user_en"],
                             select_width |-> select_width]
            /\ rng' = [i |-> 0, stop |-> ControlRangeStop(m_count)]
            /\ pc' = "c_loop"
            /\ UNCHANGED <<m_count, ios, requested, m_axiss>>
    /\ UNCHANGED <<gen, cli, args, json_doc, log, stdout, calls, domains, comb,
                   module, s_count, select_width, s_axiss, select>>

\* for m_count in range(m_count+1): one select signal declared, requested and
\* assigned to interconnect.select[m_count]
AXIS_control_loop ==
    /\ pc = "c_loop"
    /\ IF rng.i < rng.stop
       THEN /\ m_count' = LoopTarget(m_count, rng.i)
            /\ ios' = ios \cup get_control_ios(select_width, rng.i)
            /\ requested' = Append(requested, SelectName(rng.i))
            /\ select' = Append(select, [index |-> rng.i,
                                         name  |-> SelectName(rng.i),
                                         width |-> select_width])
            /\ rng' = [rng EXCEPT !.i = rng.i + 1]
            /\ pc' = pc
            /\ UNCHANGED module
       ELSE /\ module' = "AXISTREAMINTERCONNECTWrapper"
            /\ pc' = "build"
            /\ UNCHANGED <<m_count, ios, requested, select, rng>>
    /\ UNCHANGED <<gen, cli, args, json_doc, log, stdout, calls, domains, comb,
                   submodule, s_count, select_width, s_axiss, m_axiss>>

Next ==
    \/ parse_args
    \/ param_check
    \/ import_json
    \/ export_json
    \/ prepare
    \/ AXIDPRAMWrapper
    \/ AXISPISLAVEWrapper
    \/ FIFOWrapper
    \/ AXIS_clocking
    \/ AXIS_slave_loop
    \/ AXIS_master_loop
    \/ AXIS_control_loop
    \/ build

Spec == Init /\ [][Next]_vars

-----------------------------------------------------------------------------
(* Properties.                                                             *)

Range(q) == {q[k] : k \in 1..Len(q)}

Max(a, b) == IF a >= b THEN a ELSE b

Assembled == module # "None"

\* the sources assigned to signal sig of clock domain cd
Sources(cd, sig) == {comb[k].src : k \in {j \in 1..Len(comb) : comb[j].cd = cd /\ comb[j].sig = sig}}

\* the select names m0_select .. m16_select, written out
SelectNames ==
    <<"m0_select", "m1_select", "m2_select", "m3_select", "m4_select", "m5_select",
      "m6_select", "m7_select", "m8_select", "m9_select", "m10_select", "m11_select",
      "m12_select", "m13_select", "m14_select", "m15_select", "m16_select">>

\* C1: when the interconnect wrapper is assembled for a master count m in 1..16,
\* exactly m select signals were generated and bound, named m0_select ..
\* m{m-1}_select in this order, each declared and requested on the platform;
\* and at no point of the assembly are there more than m of them.
C1_SelectSignalsEqualMasterCount ==
    gen = "axis_interconnect" /\ pc \in {"s_loop", "m_loop", "c_loop", "build", "done"} =>
        /\ args["m_count"] \in 1..16
        /\ Len(select) <= args["m_count"]
        /\ \A k \in 1..Len(select) :
              /\ select[k].index = k - 1
              /\ select[k].name = SelectNames[k]
              /\ select[k].name \in Range(requested)
              /\ select[k].name \in Names(ios)
        /\ Assembled => Len(select) = args["m_count"]

\* C1 witness: the wrapper assembled for {slaveCount: 4, masterCount: 4} with 4 signals
C1_Witness ==
    /\ gen = "axis_interconnect" /\ pc = "done" /\ Assembled
    /\ args["s_count"] = 4 /\ args["m_count"] = 4
    /\ Len(select) = 4
    /\ select[4].name = "m3_select"

\* the suffixes of the stream ports for the indices 0..16, written out
Suffixes ==
    <<"00", "01", "02", "03", "04", "05", "06", "07", "08", "09",
      "10", "11", "12", "13", "14", "15", "16">>

\* C6: the interconnect's stream port for index i is s<suffix>_axis / m<suffix>_axis
\* with the two-digit zero-padded decimal of i below 10 and the unpadded decimal
\* from 10 on; the ports are generated (declared and requested) in ascending
\* index order, one per configured slave and master, and the names requested in
\* one run are pairwise distinct.
C6_PortNames ==
    gen = "axis_interconnect" /\ pc \in {"s_loop", "m_loop", "c_loop", "build", "done"} =>
        /\ Len(s_axiss) <= args["s_count"] /\ Len(m_axiss) <= args["m_count"]
        /\ \A k \in 1..Len(s_axiss) :
              /\ s_axiss[k].name = "s" \o Suffixes[k] \o "_axis"
              /\ requested[2 + k] = s_axiss[k].name
              /\ s_axiss[k].name \in Names(ios)
        /\ \A k \in 1..Len(m_axiss) :
              /\ m_axiss[k].name = "m" \o Suffixes[k] \o "_axis"
              /\ requested[2 + Len(s_axiss) + k] = m_axiss[k].name
              /\ m_axiss[k].name \in Names(ios)
        /\ \A j, k \in 1..Len(requested) : j # k => requested[j] # requested[k]
        /\ Assembled => Len(s_axiss) = args["s_count"] /\ Len(m_axiss) = args["m_count"]

\* C6 witness: count 12 on both sides gives ...09 then ...10
C6_Witness ==
    /\ gen = "axis_interconnect" /\ pc = "done" /\ Assembled
    /\ args["s_count"] = 12 /\ args["m_count"] = 12
    /\ s_axiss[10].name = "s09_axis" /\ s_axiss[11].name = "s10_axis"
    /\ m_axiss[10].name = "m09_axis" /\ m_axiss[11].name = "m10_axis"

\* w = ceil(log2(n)) for n >= 1, by its defining inequalities
IsCeilLog2(w, n) == w \in Nat /\ n <= 2 ^ w /\ (w > 0 => 2 ^ (w - 1) < n)

\* C7: from the width calculation on, the select width is ceil(log2(max(s, 2)))
\* of the configured slave count s (whatever the loops have made of s_count), it
\* is at least 1, it is 1, 2 and 4 for 2, 4 and 16 slaves, and it is the width
\* of every control signal and the select_width given to the sub-core.
C7_SelectWidth ==
    gen = "axis_interconnect" /\ pc \in {"s_loop", "m_loop", "c_loop", "build", "done"} =>
        /\ args["s_count"] \in 2..16
        /\ IsCeilLog2(select_width, Max(args["s_count"], 2))
        /\ select_width >= 1
        /\ args["s_count"] = 2 => select_width = 1
        /\ args["s_count"] = 4 => select_width = 2
        /\ args["s_count"] = 16 => select_width = 4
        /\ \A k \in 1..Len(select) :
              /\ select[k].width = select_width
              /\ <<select[k].name, select_width>> \in ios
        /\ submodule.name = "AXISTREAMINTERCONNECT" => submodule.select_width = select_width

\* C7 witness: 16 slaves, the loops over, width 4 on the sub-core and a control signal
C7_Witness ==
    /\ gen = "axis_interconnect" /\ pc = "done" /\ Assembled
    /\ args["s_count"] = 16 /\ s_count = 15
    /\ submodule.select_width = 4
    /\ Len(select) > 0 /\ select[1].width = 4

\* the domain a generator declares for a core option
FieldDomain(g, f) ==
    IF g = "axi_dpram" THEN DeclaredDomain(f)
    ELSE IF f \in BoolFields(g) THEN BOOLEAN ELSE Choices(g, f)

\* the namespace as the command line alone gives it
CliArgs == ParsedArgs(gen, cli)

\* the dual-port memory options whose command-line value is outside its domain
Offending == {f \in Fields("axi_dpram") : CliArgs[f] \notin DeclaredDomain(f)}

\* the position of option f in the declaration order
Position(f) == CHOOSE k \in 1..Len(OptionOrder) : OptionOrder[k] = f

Imported == pc \in {"export_json", "prepare", "wrapper", "build", "done"} /\ args["json"]

\* C2 (as claimed): once a document is imported, no build step runs and no
\* wrapper is assembled while a core option the document supplies holds a value
\* outside the option's domain.
C2_ImportedValuesValidated ==
    gen \in JsonGenerators /\ Imported /\ (Assembled \/ calls # <<>>) =>
        \A k \in DOMAIN json_doc \cap Fields(gen) : args[k] \in FieldDomain(gen, k)

\* C3 (as claimed): a document with a key outside the parser's options ends the
\* run, and the key never becomes an attribute of the configuration.
C3_UnknownKeyRejected ==
    \A k \in DOMAIN json_doc \ (Fields(gen) \cup Flags) :
        pc = "exit" /\ k \notin DOMAIN args

C5_BuildAfterAssembly ==
    calls # <<>> => Assembled /\ args["build"]

\* C8 (as claimed): a FIFO assembled with synchronous false drives the clock and
\* the reset of the write domain and of the read domain, each from one source of
\* its own, and drives neither the clock nor the reset of the shared domain.
C8_AsynchronousDomains ==
    gen = "fifo" /\ Assembled /\ ~args["synchronous"] =>
        /\ \A cd \in {"wrt", "rd"}, sig \in {"clk", "rst"} : Cardinality(Sources(cd, sig)) = 1
        /\ Sources("wrt", "clk") # Sources("rd", "clk")
        /\ Sources("wrt", "rst") # Sources("rd", "rst")
        /\ Sources("sys", "clk") = {} /\ Sources("sys", "rst") = {}

\* C9 (as claimed): a FIFO assembled with synchronous true has the shared domain
\* alone, its clock driven from clk and its reset from rst, and neither the ports
\* wrt_clock and rd_clock nor a write or read domain.
C9_SynchronousDomain ==
    gen = "fifo" /\ Assembled /\ args["synchronous"] =>
        /\ Sources("sys", "clk") = {"clk"} /\ Sources("sys", "rst") = {"rst"}
        /\ domains = {"sys"}
        /\ {"wrt_clock", "rd_clock"} \cap (Names(ios) \cup Range(requested)) = {}

\* C10 (as claimed): in an assembled wrapper no clock or reset signal of a clock
\* domain is assigned from two different inputs.
C10_SingleDriver ==
    Assembled =>
        \A cd \in domains, sig \in {"clk", "rst"} : Cardinality(Sources(cd, sig)) <= 1

\* C11 (as claimed): in an assembled FIFO the port prog_full is declared on the
\* platform, and is requested, exactly when full_threshold is true, and
\* prog_empty exactly when empty_threshold is true.
C11_OptionalPortsPresentIffEnabled ==
    gen = "fifo" /\ Assembled =>
        /\ "prog_full" \in Names(ios) <=> args["full_threshold"]
        /\ "prog_full" \in Range(requested) <=> args["full_threshold"]
        /\ "prog_empty" \in Names(ios) <=> args["empty_threshold"]
        /\ "prog_empty" \in Range(requested) <=> args["empty_threshold"]

\* C12 (as claimed): a run with no core option on its command line and no
\* imported document proceeds with every option inside its declared domain.
C12_DefaultsInDomain ==
    pc \notin {"parse_args", "exit"} /\ DOMAIN cli \subseteq Flags /\ ~args["json"] =>
        \A f \in Fields(gen) : args[f] \in FieldDomain(gen, f)

\* the range-typed options of the dual-port memory generator and their bounds
RangeFields == {"addr_width", "id_width", "a_pip_out", "b_pip_out", "a_interleave",
                "b_interleave"}

RangeLo(f) == CASE f = "addr_width" -> 8 [] f = "id_width" -> 1 [] OTHER -> 0

RangeHi(f) == CASE f = "addr_width" -> 16 [] f = "id_width" -> 32 [] OTHER -> 1

\* the options declared before f
Earlier(f) == {e \in Fields("axi_dpram") : Position(e) < Position(f)}

Checked == gen = "axi_dpram" /\ pc \notin {"parse_args", "param_check"}

Exported == pc \in {"prepare", "wrapper", "build", "done"} /\ args["json_template"]

\* C14: round trip through the template. A run given --json-template alone
\* prints a document with an entry for every core option that reads back as the
\* option's default, and a run that imports that document with no core option on
\* its command line holds the default of every core option.
C14_TemplateRoundTrip ==
    gen \in JsonGenerators =>
        /\ (Exported /\ DOMAIN cli = {"json_template"}) =>
                /\ json_load(stdout) = Template(gen)
                /\ \A f \in Fields(gen) :
                      f \in DOMAIN stdout /\ LoadValue(stdout[f]) = Default(gen, f)
        /\ (Imported /\ json_doc = Template(gen) /\ DOMAIN cli \subseteq Flags) =>
                \A f \in Fields(gen) : args[f] = Default(gen, f)

\* C14 witness: the template was imported by a run with no core option, and the
\* wrapper was assembled from it
C14_Witness ==
    /\ gen \in JsonGenerators /\ Imported /\ Assembled
    /\ json_doc = Template(gen) /\ DOMAIN cli = {"json"}
    /\ args["data_width"] = Default(gen, "data_width")


\* C15: whenever the sub-core AXISTREAMINTERCONNECT has been instantiated, the
\* configured counts are in 2..16 and 1..16, the s_count and m_count arguments
\* it was given are each one less than the configured count, and the s_axis and
\* m_axis lists it was given hold exactly the configured number of interfaces.
C15_SubCoreCountsOneLess ==
    gen = "axis_interconnect" /\ submodule.name = "AXISTREAMINTERCONNECT" =>
        /\ args["s_count"] \in 2..16 /\ args["m_count"] \in 1..16
        /\ submodule.s_count = args["s_count"] - 1
        /\ submodule.m_count = args["m_count"] - 1
        /\ submodule.s_axis = args["s_count"]
        /\ submodule.m_axis = args["m_count"]

\* C15 witness: 16 slaves and 1 master configured, the sub-core built with
\* s_count 15 and m_count 0 over 16 and 1 interfaces
C15_Witness ==
    /\ gen = "axis_interconnect" /\ submodule.name = "AXISTREAMINTERCONNECT"
    /\ args["s_count"] = 16 /\ args["m_count"] = 1
    /\ submodule.s_count = 15 /\ submodule.m_count = 0
    /\ submodule.s_axis = 16 /\ submodule.m_axis = 1

\* C16: for every option declared with type=bool of the FIFO and interconnect
\* generators, no run ends with an error naming the option, and in a run that
\* got past parsing the option is true when any non-empty string was supplied
\* ("False" and "0" included), false when the empty string was supplied, its
\* default when omitted; so it is false only for the empty string or when it
\* is omitted and its default is false.
C16_BoolOptionTruthiness ==
    gen \in {"fifo", "axis_interconnect"} /\ pc # "parse_args" =>
        \A f \in BoolFields(gen) :
            /\ f \notin Range(log)
            /\ pc # "exit" =>
                  /\ (f \in DOMAIN cli /\ cli[f] # "") => args[f] = TRUE
                  /\ (f \in DOMAIN cli /\ cli[f] = "") => args[f] = FALSE
                  /\ f \notin DOMAIN cli => args[f] = Default(gen, f)
                  /\ args[f] = FALSE =>
                        \/ f \in DOMAIN cli /\ cli[f] = ""
                        \/ f \notin DOMAIN cli /\ Default(gen, f) = FALSE

\* C16 witness: --synchronous False and --full_threshold 0 both resolved to
\* true, and the FIFO was assembled accordingly
C16_Witness ==
    /\ gen = "fifo" /\ Assembled
    /\ {"synchronous", "full_threshold"} \subseteq DOMAIN cli
    /\ cli["synchronous"] = "False" /\ cli["full_threshold"] = "0"
    /\ args["synchronous"] = TRUE /\ args["full_threshold"] = TRUE
    /\ "prog_full" \in Range(requested)
====
